---- MODULE Spec2Model ----
(***************************************************************************)
(* The C bridge of Go-Clipper2 (src/capi/clipper_bridge.cc, .h): the wire  *)
(* structs cpt64 / cpath64 / cpaths64, the two converters toPaths64 and    *)
(* fromPaths64, the deep free clipper2c_free_paths and the three entry     *)
(* points clipper2c_boolean64, clipper2c_offset64, clipper2c_rectclip64.   *)
(*                                                                         *)
(* The geometry engine (Clipper64::Execute, BooleanOp, InflatePaths,       *)
(* RectClip) is an external collaborator: its result is a nondeterministic *)
(* choice (a Paths64 value, or an exception).  The allocator             *)
(* (operator new[] with std::nothrow) may fail at every request.           *)
(***************************************************************************)
EXTENDS Integers, Sequences, FiniteSets, TLC

VARIABLES
  handles,   \* the caller's output handles: handle -> cpaths64 {len, items}
  heap,      \* the bridge's allocations: address -> {kind, cells}
  owner,     \* per handle: the Paths64 last exported into it and how that ended
  op,        \* the last operation performed
  status,    \* the integer returned by the last entry point
  call,      \* the arguments of the last call (for clipper2c_free_paths:
             \* the pointer as out_closed, the handle it found as was)
  imported,  \* what toPaths64 made of the inputs of the last call
  reads,     \* the point-buffer elements toPaths64 read during the last call
  eng,       \* what the last call asked of the geometry engine
  exports,   \* the exports the last call attempted, in order
  freed      \* the addresses the last clipper2c_free_paths released, in order

vars == <<handles, heap, owner, op, status, call, imported, reads, eng, exports, freed>>

----------------------------------------------------------------------------
(* Bounds of the model *)

MaxPaths == 2   \* most paths in a path set (wire input or engine result)
MaxPts   == 2   \* most points in a wire input path
MaxAddr  == 5   \* size of the heap, in allocations (two full results exhaust it)

----------------------------------------------------------------------------
(* Wire data model: clipper_bridge.h *)

NULL == 0

C_CLIP_INTERSECTION == 0
C_CLIP_UNION        == 1
C_CLIP_DIFFERENCE   == 2
C_CLIP_XOR          == 3

C_FILL_EVENODD  == 0
C_FILL_NONZERO  == 1
C_FILL_POSITIVE == 2
C_FILL_NEGATIVE == 3

C_JOIN_SQUARE == 0
C_JOIN_ROUND  == 1
C_JOIN_MITER  == 2

C_END_BUTT   == 0
C_END_SQUARE == 1
C_END_ROUND  == 2
C_END_JOINED == 3

Handles == {1, 2}
Addr    == 1..MaxAddr

\* cpt64 values used as coordinates; Wild stands for the indeterminate value
\* of a read outside a buffer.
Pt1  == [x |-> 70000, y |-> -3]
Pt2  == [x |-> -1, y |-> 2]
Wild == [x |-> 0, y |-> 0]
Coords == {Pt1, Pt2}

\* cpath64 as the caller passes it: len, and pts either null or a buffer.
cpath64(n, isNull, buf) == [len |-> n, ptsNull |-> isNull, pts |-> buf]

\* cpaths64 as the caller passes it (the pointer itself may be null).
cpaths64(n, its) == [isNull |-> FALSE, len |-> n, items |-> its]
NullSet == [isNull |-> TRUE, len |-> 0, items |-> <<>>]

\* cpaths64 as an output handle: len and the address of the path array.
EmptyHandle == [len |-> 0, items |-> NULL]

\* one element of an allocated path array; Uninit is an element that
\* operator new[] returned and nothing has written yet.
Entry(n, p) == [len |-> n, pts |-> p]
Uninit == [len |-> -1, pts |-> -1]

FreeCell == [kind |-> "free", cells |-> <<>>]

----------------------------------------------------------------------------
(* toPaths64 *)

\* ptCount without the test of cpath.pts
ptCount_nocheck(c) == IF c.len > 0 THEN c.len ELSE 0

\* the number of elements of c.pts the inner loop reads
ptCount(c) == IF c.len > 0 /\ ~c.ptsNull THEN c.len ELSE 0

\* cpath.pts[j]
ReadPt(c, j) == IF ~c.ptsNull /\ j \in 1..Len(c.pts) THEN c.pts[j] ELSE Wild

\* toPath64 with the coordinates narrowed to 16 bits
toPath64_narrow(c) ==
  [j \in 1..ptCount(c) |-> [x |-> ReadPt(c, j).x % 65536, y |-> ReadPt(c, j).y % 65536]]

toPath64(c) == [j \in 1..ptCount(c) |-> [x |-> ReadPt(c, j).x, y |-> ReadPt(c, j).y]]

toPaths64(cp) ==
  IF cp.isNull \/ cp.len <= 0 THEN <<>>
  ELSE [i \in 1..cp.len |-> toPath64(cp.items[i])]

\* the <<path index, point index>> pairs toPaths64 reads from the buffers
ReadsOf(cp) ==
  IF cp.isNull \/ cp.len <= 0 THEN {}
  ELSE UNION {{<<i, j>> : j \in 1..ptCount(cp.items[i])} : i \in 1..cp.len}

\* whether toPaths64 requests memory (reserve), and so may raise bad_alloc
Allocates(cp) == ~cp.isNull /\ cp.len > 0

----------------------------------------------------------------------------
(* The allocator: operator new[](size, std::nothrow) / operator delete[] *)

FreeAddrs(hp) == {a \in Addr : hp[a].kind = "free"}
LiveAddrs(hp) == Addr \ FreeAddrs(hp)

MinOf(S) == CHOOSE a \in S : \A b \in S : a <= b

\* the address returned, NULL when the request fails (by choice of the
\* environment, or because the heap is exhausted)
NewArray(hp, fail) ==
  IF fail \/ FreeAddrs(hp) = {} THEN NULL ELSE MinOf(FreeAddrs(hp))

----------------------------------------------------------------------------
(* fromPaths64 *)

\* failAt value that makes no request fail by choice
NoFail == 0 - 1

CopyPts(sp) == [j \in 1..Len(sp) |-> [x |-> sp[j].x, y |-> sp[j].y]]

\* the loop over the paths, from path i on; failAt = i makes the request
\* for path i's point buffer fail
RECURSIVE FillItems(_, _, _, _, _)
FillItems(src, i, a, hp, failAt) ==
  IF i > Len(src) THEN [ok |-> TRUE, hp |-> hp]
  ELSE LET n == Len(src[i]) IN
       IF n # 0
       THEN LET b == NewArray(hp, failAt = i) IN
            IF b = NULL
            THEN [ok |-> FALSE,
                  hp |-> [hp EXCEPT ![a].cells[i] = Entry(n, NULL)]]
            ELSE FillItems(src, i + 1, a,
                           [hp EXCEPT ![a].cells[i] = Entry(n, b),
                                      ![b] = [kind |-> "pts", cells |-> CopyPts(src[i])]],
                           failAt)
       ELSE FillItems(src, i + 1, a,
                      [hp EXCEPT ![a].cells[i] = Entry(0, NULL)], failAt)

\* fromPaths64 that reports success for a null dst
fromPaths64_nullok(src, dst, hs, hp, failAt) ==
  IF dst = NULL THEN [ok |-> TRUE, hs |-> hs, hp |-> hp]
  ELSE LET n == Len(src)
           a == NewArray(hp, failAt = 0)
           hs1 == [hs EXCEPT ![dst] = [len |-> n, items |-> a]]
       IN IF n # 0 /\ a = NULL THEN [ok |-> FALSE, hs |-> hs1, hp |-> hp]
          ELSE IF a = NULL THEN [ok |-> TRUE, hs |-> hs1, hp |-> hp]
          ELSE LET hp1 == [hp EXCEPT ![a] = [kind |-> "items",
                                             cells |-> [i \in 1..n |-> Uninit]]]
                   r == FillItems(src, 1, a, hp1, failAt)
               IN [ok |-> r.ok, hs |-> hs1, hp |-> r.hp]

\* fromPaths64 that reports failure whenever the path array is null
fromPaths64_strict(src, dst, hs, hp, failAt) ==
  IF dst = NULL THEN [ok |-> FALSE, hs |-> hs, hp |-> hp]
  ELSE LET n == Len(src)
           a == NewArray(hp, failAt = 0)
           hs1 == [hs EXCEPT ![dst] = [len |-> n, items |-> a]]
       IN IF a = NULL THEN [ok |-> FALSE, hs |-> hs1, hp |-> hp]
          ELSE LET hp1 == [hp EXCEPT ![a] = [kind |-> "items",
                                             cells |-> [i \in 1..n |-> Uninit]]]
                   r == FillItems(src, 1, a, hp1, failAt)
               IN [ok |-> r.ok, hs |-> hs1, hp |-> r.hp]

\* fromPaths64 that undoes a failed export: releases what it allocated and
\* resets the handle
fromPaths64_rollback(src, dst, hs, hp, failAt) ==
  IF dst = NULL THEN [ok |-> FALSE, hs |-> hs, hp |-> hp]
  ELSE LET n == Len(src)
           a == NewArray(hp, failAt = 0)
           hs1 == [hs EXCEPT ![dst] = [len |-> n, items |-> a]]
           hs0 == [hs EXCEPT ![dst] = [len |-> 0, items |-> NULL]]
       IN IF n # 0 /\ a = NULL THEN [ok |-> FALSE, hs |-> hs0, hp |-> hp]
          ELSE IF a = NULL THEN [ok |-> TRUE, hs |-> hs1, hp |-> hp]
          ELSE LET hp1 == [hp EXCEPT ![a] = [kind |-> "items",
                                             cells |-> [i \in 1..n |-> Uninit]]]
                   r == FillItems(src, 1, a, hp1, failAt)
               IN IF r.ok THEN [ok |-> TRUE, hs |-> hs1, hp |-> r.hp]
                  ELSE [ok |-> FALSE, hs |-> hs0, hp |-> hp]

\* fromPaths64(src, dst): the result, the handles and the heap afterwards.
\* failAt = 0 makes the request for the path array fail.
fromPaths64(src, dst, hs, hp, failAt) ==
  IF dst = NULL THEN [ok |-> FALSE, hs |-> hs, hp |-> hp]
  ELSE LET n == Len(src)
           a == NewArray(hp, failAt = 0)
           hs1 == [hs EXCEPT ![dst] = [len |-> n, items |-> a]]
       IN IF n # 0 /\ a = NULL THEN [ok |-> FALSE, hs |-> hs1, hp |-> hp]
          ELSE IF a = NULL THEN [ok |-> TRUE, hs |-> hs1, hp |-> hp]
          ELSE LET hp1 == [hp EXCEPT ![a] = [kind |-> "items",
                                             cells |-> [i \in 1..n |-> Uninit]]]
                   r == FillItems(src, 1, a, hp1, failAt)
               IN [ok |-> r.ok, hs |-> hs1, hp |-> r.hp]

----------------------------------------------------------------------------
(* clipper2c_free_paths *)

NonNull(p) == p # NULL

\* the point buffers the loop deletes, in order
PtsOf(h, hp) ==
  SelectSeq([i \in 1..h.len |-> hp[h.items].cells[i].pts], NonNull)

RECURSIVE DeleteAll(_, _)
DeleteAll(hp, as) ==
  IF as = <<>> THEN hp
  ELSE DeleteAll([hp EXCEPT ![Head(as)] = FreeCell], Tail(as))

\* free_paths that releases the path array only
free_paths_shallow(p, hs, hp) ==
  IF (IF p = NULL THEN TRUE ELSE hs[p].items = NULL)
  THEN [hs |-> hs, hp |-> hp, freed |-> <<>>]
  ELSE [hs |-> [hs EXCEPT ![p] = [items |-> NULL, len |-> 0]],
        hp |-> DeleteAll(hp, <<hs[p].items>>),
        freed |-> <<hs[p].items>>]

\* free_paths that takes len = 0, not items = null, for the empty handle
free_paths_bylen(p, hs, hp) ==
  IF (IF p = NULL THEN TRUE ELSE hs[p].len = 0)
  THEN [hs |-> hs, hp |-> hp, freed |-> <<>>]
  ELSE LET del == Append(PtsOf(hs[p], hp), hs[p].items)
       IN [hs |-> [hs EXCEPT ![p] = [items |-> NULL, len |-> 0]],
           hp |-> DeleteAll(hp, del),
           freed |-> del]

free_paths(p, hs, hp) ==
  IF (IF p = NULL THEN TRUE ELSE hs[p].items = NULL)
  THEN [hs |-> hs, hp |-> hp, freed |-> <<>>]
  ELSE LET del == Append(PtsOf(hs[p], hp), hs[p].items)
       IN [hs |-> [hs EXCEPT ![p] = [items |-> NULL, len |-> 0]],
           hp |-> DeleteAll(hp, del),
           freed |-> del]

\* the loop of free_paths reads no element that was never written
ReadsNoUninit(p, hs, hp) ==
  IF p = NULL THEN TRUE
  ELSE IF hs[p].items = NULL THEN TRUE
  ELSE \A i \in 1..hs[p].len : hp[hs[p].items].cells[i] # Uninit

----------------------------------------------------------------------------
(* Enum conversions *)

toFR(fr) ==
  CASE fr = C_FILL_NONZERO  -> "NonZero"
    [] fr = C_FILL_POSITIVE -> "Positive"
    [] fr = C_FILL_NEGATIVE -> "Negative"
    [] OTHER                -> "EvenOdd"

toCT(ct) ==
  CASE ct = C_CLIP_UNION      -> "Union"
    [] ct = C_CLIP_DIFFERENCE -> "Difference"
    [] ct = C_CLIP_XOR        -> "Xor"
    [] OTHER                  -> "Intersection"

toJT(jt) ==
  CASE jt = C_JOIN_SQUARE -> "Square"
    [] jt = C_JOIN_ROUND  -> "Round"
    [] jt = C_JOIN_MITER  -> "Miter"
    [] OTHER              -> "Square"

toET(et) ==
  CASE et = C_END_JOINED -> "Joined"
    [] et = C_END_BUTT   -> "Butt"
    [] et = C_END_SQUARE -> "Square"
    [] et = C_END_ROUND  -> "Round"
    [] OTHER             -> "Polygon"

----------------------------------------------------------------------------
(* Records of what a call did *)

NoOwner == [st |-> "none", src |-> <<>>]
Owned(ok, src) == [st |-> IF ok THEN "ok" ELSE "failed", src |-> src]

NoCall == [ct |-> 0, fr |-> 0, subjects |-> NullSet, subjects_open |-> NullSet,
           clips |-> NullSet, out_closed |-> NULL, out_open |-> NULL,
           was |-> EmptyHandle]
NoImport == [subj |-> <<>>, subjOp |-> <<>>, clip |-> <<>>]
NoReads  == [subj |-> {}, subjOp |-> {}, clip |-> {}]
NoEngine == [mode |-> "none", calls |-> 0, added |-> <<>>, raised |-> "none",
             opts |-> <<>>, sol |-> <<>>, solOpen |-> <<>>]

Init ==
  /\ handles = [h \in Handles |-> EmptyHandle]
  /\ heap = [a \in Addr |-> FreeCell]
  /\ owner = [h \in Handles |-> NoOwner]
  /\ op = "init"
  /\ status = 0
  /\ call = NoCall
  /\ imported = NoImport
  /\ reads = NoReads
  /\ eng = NoEngine
  /\ exports = <<>>
  /\ freed = <<>>

\* The caller holds nothing: every handle is empty and no allocation is live.
Clean ==
  /\ \A h \in Handles : handles[h] = EmptyHandle
  /\ FreeAddrs(heap) = Addr

\* A request starts from the state in which nothing of an earlier request
\* is left.  No entry point keeps state across calls (the engine instance
\* and the imported collections are locals), so the records of the previous
\* request are dropped (Rest) once the caller holds nothing.
Quiet == op = "init"

----------------------------------------------------------------------------
(* clipper2c_boolean64 *)

\* useClipper with || in place of &&
useClipper_or(subj, subjOp, clip) ==
  Len(subjOp) # 0 \/ (Len(subj) # 0 \/ Len(clip) # 0)

\* bool useClipper = !subjOp.empty() || (!subj.empty() && !clip.empty());
useClipper(subj, subjOp, clip) ==
  Len(subjOp) # 0 \/ (Len(subj) # 0 /\ Len(clip) # 0)

\* which engine evaluation the if / else-if chain runs
EngineMode(subj, subjOp, clip) ==
  IF useClipper(subj, subjOp, clip) THEN "full"
  ELSE IF Len(subj) # 0 /\ Len(clip) = 0 THEN "reduced"
  ELSE "none"

\* the AddSubject / AddOpenSubject / AddClip calls, in order
Registered(subj, subjOp, clip) ==
  IF useClipper(subj, subjOp, clip)
  THEN (IF Len(subj) # 0 THEN <<"subject">> ELSE <<>>)
       \o (IF Len(subjOp) # 0 THEN <<"open">> ELSE <<>>)
       \o (IF Len(clip) # 0 THEN <<"clip">> ELSE <<>>)
  ELSE <<>>

\* the two exports without the return after a failed closed export
BooleanExports_noStop(sol, solOpen, out_closed, out_open, hs, hp, failC, failO) ==
  LET rc == fromPaths64(sol, out_closed, hs, hp, failC)
      closedFailed == out_closed # NULL /\ ~rc.ok
      hs1 == IF out_closed # NULL THEN rc.hs ELSE hs
      hp1 == IF out_closed # NULL THEN rc.hp ELSE hp
      ro == fromPaths64(solOpen, out_open, hs1, hp1, failO)
      openTried  == out_open # NULL
      openFailed == openTried /\ ~ro.ok
  IN [status |-> IF closedFailed THEN 2 ELSE IF openFailed THEN 3 ELSE 0,
      hs |-> IF openTried THEN ro.hs ELSE hs1,
      hp |-> IF openTried THEN ro.hp ELSE hp1,
      log |-> (IF out_closed # NULL
               THEN <<[slot |-> "closed", dst |-> out_closed, ok |-> rc.ok, src |-> sol]>>
               ELSE <<>>)
              \o (IF openTried
                  THEN <<[slot |-> "open", dst |-> out_open, ok |-> ro.ok, src |-> solOpen]>>
                  ELSE <<>>)]

\* the two exports, with the closed output released again when the open
\* export fails
BooleanExports_cleanup(sol, solOpen, out_closed, out_open, hs, hp, failC, failO) ==
  LET rc == fromPaths64(sol, out_closed, hs, hp, failC)
      closedFailed == out_closed # NULL /\ ~rc.ok
      hs1 == IF out_closed # NULL THEN rc.hs ELSE hs
      hp1 == IF out_closed # NULL THEN rc.hp ELSE hp
      ro == fromPaths64(solOpen, out_open, hs1, hp1, failO)
      openTried  == ~closedFailed /\ out_open # NULL
      openFailed == openTried /\ ~ro.ok
      fr == free_paths(out_closed, ro.hs, ro.hp)
  IN [status |-> IF closedFailed THEN 2 ELSE IF openFailed THEN 3 ELSE 0,
      hs |-> IF openFailed THEN fr.hs ELSE IF openTried THEN ro.hs ELSE hs1,
      hp |-> IF openFailed THEN fr.hp ELSE IF openTried THEN ro.hp ELSE hp1,
      log |-> (IF out_closed # NULL
               THEN <<[slot |-> "closed", dst |-> out_closed, ok |-> rc.ok, src |-> sol]>>
               ELSE <<>>)
              \o (IF openTried
                  THEN <<[slot |-> "open", dst |-> out_open, ok |-> ro.ok, src |-> solOpen]>>
                  ELSE <<>>)]

\* the two exports and the status they give: closed first, open only when
\* the closed export did not fail
BooleanExports(sol, solOpen, out_closed, out_open, hs, hp, failC, failO) ==
  LET rc == fromPaths64(sol, out_closed, hs, hp, failC)
      closedFailed == out_closed # NULL /\ ~rc.ok
      hs1 == IF out_closed # NULL THEN rc.hs ELSE hs
      hp1 == IF out_closed # NULL THEN rc.hp ELSE hp
      ro == fromPaths64(solOpen, out_open, hs1, hp1, failO)
      openTried  == ~closedFailed /\ out_open # NULL
      openFailed == openTried /\ ~ro.ok
  IN [status |-> IF closedFailed THEN 2 ELSE IF openFailed THEN 3 ELSE 0,
      hs |-> IF openTried THEN ro.hs ELSE hs1,
      hp |-> IF openTried THEN ro.hp ELSE hp1,
      log |-> (IF out_closed # NULL
               THEN <<[slot |-> "closed", dst |-> out_closed, ok |-> rc.ok, src |-> sol]>>
               ELSE <<>>)
              \o (IF openTried
                  THEN <<[slot |-> "open", dst |-> out_open, ok |-> ro.ok, src |-> solOpen]>>
                  ELSE <<>>)]

\* the owner record of every handle an export of the log wrote
RECURSIVE OwnersAfter(_, _)
OwnersAfter(ow, log) ==
  IF log = <<>> THEN ow
  ELSE OwnersAfter(IF Head(log).dst = NULL THEN ow
                   ELSE [ow EXCEPT ![Head(log).dst] = Owned(Head(log).ok, Head(log).src)],
                   Tail(log))

\* One call.  raise, esol, esolOpen are the engine's (and the import's)
\* behaviour; failC, failO the allocator's during the two exports.
\* toPaths64 can raise (bad_alloc) only when it reserves, the engine only
\* when it evaluates; the default construction of the Clipper64 local
\* evaluates nothing.  Whatever is raised is caught and returned as 1.
Boolean64(ct, fr, subjects, subjects_open, clips, out_closed, out_open, raise, esol, esolOpen, failC, failO) ==
  LET subj   == toPaths64(subjects)
      subjOp == toPaths64(subjects_open)
      clip   == toPaths64(clips)
      mode   == EngineMode(subj, subjOp, clip)
      sol     == IF raise = "none" /\ mode # "none" THEN esol ELSE <<>>
      solOpen == IF raise = "none" /\ mode = "full" THEN esolOpen ELSE <<>>
      ex == BooleanExports(sol, solOpen, out_closed, out_open, handles, heap, failC, failO)
  IN /\ raise = "import" => (Allocates(subjects) \/ Allocates(subjects_open) \/ Allocates(clips))
     /\ raise = "engine" => mode # "none"
     /\ mode = "none" => esol = <<>>
     /\ mode # "full" => esolOpen = <<>>
     /\ raise # "none" => (esol = <<>> /\ esolOpen = <<>>)
     /\ (raise # "none" \/ out_closed = NULL) => failC = NoFail
     /\ (raise # "none" \/ out_open = NULL \/ ex.status = 2) => failO = NoFail
     /\ failC \in NoFail..Len(sol)
     /\ failO \in NoFail..Len(solOpen)
     /\ op' = "boolean64"
     /\ call' = [ct |-> ct, fr |-> fr, subjects |-> subjects,
                 subjects_open |-> subjects_open, clips |-> clips,
                 out_closed |-> out_closed, out_open |-> out_open,
                 was |-> EmptyHandle]
     /\ imported' = IF raise = "import" THEN NoImport
                    ELSE [subj |-> subj, subjOp |-> subjOp, clip |-> clip]
     /\ reads' = [subj |-> ReadsOf(subjects), subjOp |-> ReadsOf(subjects_open),
                  clip |-> ReadsOf(clips)]
     /\ eng' = [mode |-> IF raise = "import" THEN "none" ELSE mode,
                calls |-> IF raise = "import" \/ mode = "none" THEN 0 ELSE 1,
                added |-> IF raise = "import" THEN <<>> ELSE Registered(subj, subjOp, clip),
                raised |-> raise,
                opts |-> IF raise = "import" \/ mode = "none" THEN <<>> ELSE <<toCT(ct), toFR(fr)>>,
                sol |-> sol, solOpen |-> solOpen]
     /\ freed' = <<>>
     /\ IF raise # "none"
        THEN /\ status' = 1
             /\ exports' = <<>>
             /\ UNCHANGED <<handles, heap, owner>>
        ELSE /\ status' = ex.status
             /\ exports' = ex.log
             /\ handles' = ex.hs
             /\ heap' = ex.hp
             /\ owner' = OwnersAfter(owner, ex.log)

----------------------------------------------------------------------------
(* clipper2c_offset64 and clipper2c_rectclip64 *)

\* what both entry points do around their engine call: import, evaluate,
\* export the single result, map a failed export to 2 and an exception to 1.
\* The call record keeps the input set as subjects and the output pointer
\* as out_closed; delta, miter_limit, arc_tolerance and the rectangle are
\* forwarded to the engine untouched and are not part of the state.
OneResultCall(name, mode, opts, paths, out_paths, raise, eout, failAt) ==
  LET in  == toPaths64(paths)
      out == IF raise = "none" THEN eout ELSE <<>>
      r   == fromPaths64(out, out_paths, handles, heap, failAt)
      log == <<[slot |-> "paths", dst |-> out_paths, ok |-> r.ok, src |-> out]>>
  IN /\ raise = "import" => Allocates(paths)
     /\ raise # "none" => eout = <<>>
     /\ (raise # "none" \/ out_paths = NULL) => failAt = NoFail
     /\ failAt \in NoFail..Len(out)
     /\ op' = name
     /\ call' = [NoCall EXCEPT !.subjects = paths, !.out_closed = out_paths]
     /\ imported' = IF raise = "import" THEN NoImport ELSE [NoImport EXCEPT !.subj = in]
     /\ reads' = [NoReads EXCEPT !.subj = ReadsOf(paths)]
     /\ eng' = [mode |-> IF raise = "import" THEN "none" ELSE mode,
                calls |-> IF raise = "import" THEN 0 ELSE 1,
                added |-> <<>>,
                raised |-> raise,
                opts |-> IF raise = "import" THEN <<>> ELSE opts,
                sol |-> out, solOpen |-> <<>>]
     /\ freed' = <<>>
     /\ IF raise # "none"
        THEN /\ status' = 1
             /\ exports' = <<>>
             /\ UNCHANGED <<handles, heap, owner>>
        ELSE /\ status' = IF ~r.ok THEN 2 ELSE 0
             /\ exports' = log
             /\ handles' = r.hs
             /\ heap' = r.hp
             /\ owner' = OwnersAfter(owner, log)

Offset64(paths, jt, et, out_paths, raise, eout, failAt) ==
  OneResultCall("offset64", "inflate", <<toJT(jt), toET(et)>>,
                paths, out_paths, raise, eout, failAt)

RectClip64(in_paths, out_paths, raise, eout, failAt) ==
  OneResultCall("rectclip64", "rectclip", <<>>,
                in_paths, out_paths, raise, eout, failAt)

----------------------------------------------------------------------------
(* The caller releases a handle *)

FreePaths(p) ==
  LET r == free_paths(p, handles, heap)
  IN /\ op # "init"
     /\ ReadsNoUninit(p, handles, heap)
     /\ op' = "free_paths"
     /\ handles' = r.hs
     /\ heap' = r.hp
     /\ freed' = r.freed
     /\ owner' = IF p = NULL THEN owner ELSE [owner EXCEPT ![p] = NoOwner]
     /\ call' = [NoCall EXCEPT !.out_closed = p,
                                !.was = IF p = NULL THEN EmptyHandle ELSE handles[p]]
     /\ status' = 0
     /\ imported' = NoImport
     /\ reads' = NoReads
     /\ eng' = NoEngine
     /\ exports' = <<>>

----------------------------------------------------------------------------
(* The environment: the requests the caller makes, the engine's answers   *)
(* and the allocator's failures.  The full product of inputs, engine      *)
(* results and allocation failures is cut into slices, each wide in what  *)
(* one part of the bridge depends on.                                     *)

ClipTypes == {C_CLIP_INTERSECTION, C_CLIP_UNION, C_CLIP_DIFFERENCE, C_CLIP_XOR}
FillRules == {C_FILL_EVENODD, C_FILL_NONZERO, C_FILL_POSITIVE, C_FILL_NEGATIVE}
JoinTypes == {C_JOIN_SQUARE, C_JOIN_ROUND, C_JOIN_MITER}
EndTypes  == {C_END_BUTT, C_END_SQUARE, C_END_ROUND, C_END_JOINED}
Raises    == {"none", "import", "engine"}

\* sequences over S of length at most n
SeqsUpTo(S, n) == UNION {[1..k -> S] : k \in 0..n}

\* wire paths: every len in -1..MaxPts, with a null buffer, or with a
\* buffer of len points (a buffer that must not be read when len <= 0)
WirePaths ==
  {cpath64(n, TRUE, <<>>) : n \in (0 - 1)..MaxPts}
  \cup {cpath64(n, FALSE, <<Pt1>>) : n \in (0 - 1)..0}
  \cup UNION {{cpath64(n, FALSE, b) : b \in [1..n -> Coords]} : n \in 1..MaxPts}

\* wire sets: null, len -1, len 0, and len paths for len in 1..MaxPaths
WireSets ==
  {NullSet, cpaths64(0 - 1, <<>>), cpaths64(0, <<>>)}
  \cup UNION {{cpaths64(n, its) : its \in [1..n -> WirePaths]} : n \in 1..MaxPaths}

\* the sets that import as an empty collection
EmptySets == {NullSet, cpaths64(0 - 1, <<>>), cpaths64(0, <<>>)}

\* the wire sets of at most one path of at most one point
SelectSets ==
  EmptySets \cup {cpaths64(1, <<c>>) : c \in {w \in WirePaths : w.len <= 1 /\ Len(w.pts) <= 1}}

OnePath == cpaths64(1, <<cpath64(2, FALSE, <<Pt1, Pt2>>)>>)

\* the results the engine may return
EnginePaths == {<<>>, <<Pt1, Pt2>>}
EngineOut   == SeqsUpTo(EnginePaths, MaxPaths)
FailPoints  == NoFail..MaxPaths

\* requests whose three sets are all empty: every clip type and fill rule
BooleanEmpty ==
  Quiet /\ \E ct \in ClipTypes, fr \in FillRules, s \in EmptySets, o \in EmptySets, c \in EmptySets,
     oc \in {NULL, 1}, oo \in {NULL, 2}, failC \in {NoFail, 0}, failO \in {NoFail, 0} :
    Boolean64(ct, fr, s, o, c, oc, oo, "none", <<>>, <<>>, failC, failO)

\* requests over every small input set: what the strategy selection sees
BooleanSelect ==
  Quiet /\ \E s \in SelectSets, o \in SelectSets, c \in SelectSets, raise \in Raises,
     esol \in {<<>>, <<<<Pt1, Pt2>>>>}, esolOpen \in {<<>>, <<<<Pt1, Pt2>>>>} :
    Boolean64(C_CLIP_UNION, C_FILL_NONZERO, s, o, c, 1, 2, raise, esol, esolOpen,
              NoFail, NoFail)

\* requests with every engine result and every allocation failure
BooleanMarshal ==
  Quiet /\ \E ct \in {C_CLIP_INTERSECTION, C_CLIP_XOR},
     in \in {<<OnePath, NullSet, OnePath>>, <<OnePath, NullSet, NullSet>>,
             <<NullSet, OnePath, NullSet>>},
     oc \in {NULL, 1}, oo \in {NULL, 2}, raise \in Raises,
     esol \in EngineOut, esolOpen \in EngineOut,
     failC \in FailPoints, failO \in FailPoints :
    Boolean64(ct, C_FILL_EVENODD, in[1], in[2], in[3], oc, oo, raise, esol, esolOpen,
              failC, failO)

Offset ==
  Quiet /\ \E paths \in {NullSet, cpaths64(0, <<>>), OnePath}, jt \in JoinTypes, et \in EndTypes,
     out \in {NULL} \cup Handles, raise \in Raises, eout \in EngineOut,
     failAt \in FailPoints :
    Offset64(paths, jt, et, out, raise, eout, failAt)

RectClip ==
  Quiet /\ \E paths \in {NullSet, cpaths64(0, <<>>), OnePath},
     out \in {NULL} \cup Handles, raise \in Raises, eout \in EngineOut,
     failAt \in FailPoints :
    RectClip64(paths, out, raise, eout, failAt)

Free == \E p \in {NULL} \cup Handles : FreePaths(p)

\* between two requests: the caller holds nothing and starts afresh
Rest ==
  /\ op # "init"
  /\ Clean
  /\ op' = "init"
  /\ status' = 0
  /\ call' = NoCall
  /\ imported' = NoImport
  /\ reads' = NoReads
  /\ eng' = NoEngine
  /\ exports' = <<>>
  /\ freed' = <<>>
  /\ owner' = [h \in Handles |-> NoOwner]
  /\ UNCHANGED <<handles, heap>>

Next == BooleanEmpty \/ BooleanSelect \/ BooleanMarshal \/ Offset \/ RectClip \/ Free \/ Rest

Spec == Init /\ [][Next]_vars

----------------------------------------------------------------------------
(* The converters on their own: export(import(P)) for every wire set P    *)

InitConv ==
  /\ handles = [h \in Handles |-> EmptyHandle]
  /\ heap = [a \in Addr |-> FreeCell]
  /\ owner = [h \in Handles |-> NoOwner]
  /\ op = "wire"
  /\ status = 0
  /\ call \in {[NoCall EXCEPT !.subjects = P, !.out_closed = 1] : P \in WireSets}
  /\ imported = NoImport
  /\ reads = NoReads
  /\ eng = NoEngine
  /\ exports = <<>>
  /\ freed = <<>>

ConvImport ==
  /\ op = "wire"
  /\ op' = "import"
  /\ imported' = [NoImport EXCEPT !.subj = toPaths64(call.subjects)]
  /\ reads' = [NoReads EXCEPT !.subj = ReadsOf(call.subjects)]
  /\ UNCHANGED <<handles, heap, owner, status, call, eng, exports, freed>>

ConvExport ==
  /\ op = "import"
  /\ \E failAt \in NoFail..Len(imported.subj) :
       LET r == fromPaths64(imported.subj, call.out_closed, handles, heap, failAt)
           log == <<[slot |-> "paths", dst |-> call.out_closed, ok |-> r.ok,
                     src |-> imported.subj]>>
       IN /\ op' = "export"
          /\ status' = IF r.ok THEN 0 ELSE 2
          /\ exports' = log
          /\ handles' = r.hs
          /\ heap' = r.hp
          /\ owner' = OwnersAfter(owner, log)
  /\ UNCHANGED <<call, imported, reads, eng, freed>>

ConvFree == op = "export" /\ FreePaths(call.out_closed)

NextConv == ConvImport \/ ConvExport \/ ConvFree

SpecConv == InitConv /\ [][NextConv]_vars

----------------------------------------------------------------------------
(* Predicates the properties share *)

\* the wire notion of an empty input set
EmptyWire(cp) == cp.isNull \/ cp.len <= 0

\* a valid wire set: lengths are counts, and a path of positive length has
\* a point buffer of exactly that length
ValidWire(cp) ==
  /\ ~cp.isNull
  /\ cp.len >= 0
  /\ Len(cp.items) = cp.len
  /\ \A i \in 1..cp.len :
       /\ cp.items[i].len >= 0
       /\ cp.items[i].len > 0 =>
            (~cp.items[i].ptsNull /\ Len(cp.items[i].pts) = cp.items[i].len)

\* handle h holds a complete export of src: the path array and one live
\* point buffer per non-empty path, all distinct, holding src's points
Complete(h, src, hp) ==
  /\ h.len = Len(src)
  /\ IF h.items = NULL THEN Len(src) = 0
     ELSE /\ hp[h.items].kind = "items"
          /\ Len(hp[h.items].cells) = Len(src)
          /\ \A i \in 1..Len(src) :
               LET e == hp[h.items].cells[i] IN
               /\ e.len = Len(src[i])
               /\ IF Len(src[i]) = 0 THEN e.pts = NULL
                  ELSE /\ e.pts \in Addr
                       /\ hp[e.pts].kind = "pts"
                       /\ hp[e.pts].cells = src[i]
          /\ \A i, j \in 1..Len(src) :
               (i # j /\ Len(src[i]) # 0 /\ Len(src[j]) # 0)
                 => hp[h.items].cells[i].pts # hp[h.items].cells[j].pts

\* the addresses reachable from handle h
Reach(h, hp) ==
  IF h.items = NULL THEN {}
  ELSE {h.items}
       \cup ({hp[h.items].cells[i].pts : i \in 1..Len(hp[h.items].cells)} \cap Addr)

IsCall == op \in {"boolean64", "offset64", "rectclip64"}

----------------------------------------------------------------------------
(* C3 *)

\* C3: round trip.  For every valid wire set P, the export of the import of
\* P, when no allocation fails, has as many paths as P, each of P's length
\* and holding P's points in P's order; a zero-length path comes back with
\* length 0 and a null point buffer.
C3_RoundTrip ==
  (op = "export" /\ exports[1].ok /\ ValidWire(call.subjects)) =>
    LET P == call.subjects
        h == handles[call.out_closed]
    IN /\ h.len = P.len
       /\ P.len > 0 =>
            /\ h.items # NULL
            /\ \A i \in 1..P.len :
                 LET e == heap[h.items].cells[i] IN
                 /\ e.len = P.items[i].len
                 /\ IF P.items[i].len = 0 THEN e.pts = NULL
                    ELSE /\ e.pts # NULL
                         /\ heap[e.pts].cells = P.items[i].pts

C3_Witness ==
  /\ op = "export"
  /\ exports[1].ok
  /\ ValidWire(call.subjects)
  /\ call.subjects.len = 2
  /\ call.subjects.items[1] = cpath64(2, FALSE, <<Pt1, Pt2>>)
  /\ call.subjects.items[2] = cpath64(0, FALSE, <<Pt1>>)
  /\ handles[1].len = 2

----------------------------------------------------------------------------
(* C1 *)

\* the roles whose wire set is non-empty, in registration order
NonEmptyRoles(c) ==
  (IF ~EmptyWire(c.subjects) THEN <<"subject">> ELSE <<>>)
  \o (IF ~EmptyWire(c.subjects_open) THEN <<"open">> ELSE <<>>)
  \o (IF ~EmptyWire(c.clips) THEN <<"clip">> ELSE <<>>)

\* C1: in clipper2c_boolean64 (once the import has not raised) the engine
\* call depends only on which of the three input sets are empty (null or
\* len <= 0): open subjects non-empty, or closed subjects and clip both
\* non-empty, gives one full evaluation after registering exactly the
\* non-empty sets; else closed subjects non-empty and clip empty gives one
\* reduced evaluation with an empty open solution; else no engine call.
C1_StrategySelection ==
  (op = "boolean64" /\ eng.raised # "import") =>
    LET eS == EmptyWire(call.subjects)
        eO == EmptyWire(call.subjects_open)
        eC == EmptyWire(call.clips)
        full    == ~eO \/ (~eS /\ ~eC)
        reduced == ~full /\ ~eS /\ eC
        none    == ~full /\ ~reduced
    IN /\ full => (eng.mode = "full" /\ eng.calls = 1 /\ eng.added = NonEmptyRoles(call))
       /\ reduced => (eng.mode = "reduced" /\ eng.calls = 1 /\ eng.added = <<>>
                      /\ eng.solOpen = <<>>)
       /\ none => (eng.mode = "none" /\ eng.calls = 0 /\ eng.added = <<>>
                   /\ eng.sol = <<>> /\ eng.solOpen = <<>>)
       /\ none <=> (eS /\ eO)

C1_Witness ==
  /\ op = "boolean64"
  /\ eng.raised = "none"
  /\ ~EmptyWire(call.subjects)
  /\ EmptyWire(call.subjects_open)
  /\ ~EmptyWire(call.clips)
  /\ eng.mode = "full"
  /\ eng.added = <<"subject", "clip">>

----------------------------------------------------------------------------
(* C2 *)

Tried(slot) == \E k \in 1..Len(exports) : exports[k].slot = slot
Failed(slot) == \E k \in 1..Len(exports) : exports[k].slot = slot /\ ~exports[k].ok

\* C2: clipper2c_boolean64 returns a status in 0..3; 1 exactly when the
\* import or the engine raised, and then no output handle was written; 2
\* exactly when the export of the closed solution failed, and then the open
\* solution was not exported; 3 exactly when the closed export succeeded or
\* was skipped and the open export failed; 0 otherwise.  The closed
\* solution is exported before the open one.
C2_StatusCodes ==
  op = "boolean64" =>
    /\ status \in 0..3
    /\ status = 1 <=> eng.raised # "none"
    /\ status = 1 => (exports = <<>> /\ Clean /\ \A h \in Handles : owner[h] = NoOwner)
    /\ status = 2 <=> Failed("closed")
    /\ status = 2 => ~Tried("open")
    /\ status = 3 <=> (~Failed("closed") /\ Failed("open"))
    /\ status = 0 <=> (eng.raised = "none" /\ ~Failed("closed") /\ ~Failed("open"))
    /\ \A k \in 1..Len(exports) : exports[k].slot = "open" => k = Len(exports)
    /\ (eng.raised = "none" /\ call.out_closed # NULL) => Tried("closed")
    /\ \A k \in 1..Len(exports) :
         exports[k].ok <=> Complete(handles[exports[k].dst], exports[k].src, heap)

C2_Witness ==
  /\ op = "boolean64"
  /\ status = 3
  /\ Len(exports) = 2
  /\ exports[1].slot = "closed" /\ exports[1].ok
  /\ exports[2].slot = "open" /\ ~exports[2].ok

----------------------------------------------------------------------------
(* C7 *)

\* C7: clipper2c_boolean64 with closed subjects, open subjects and clip all
\* empty returns 0 without an engine call and leaves every non-null output
\* handle with len = 0, for every clip type and fill rule, also when the
\* allocator fails.
C7_AllEmpty ==
  (op = "boolean64" /\ EmptyWire(call.subjects) /\ EmptyWire(call.subjects_open)
   /\ EmptyWire(call.clips)) =>
    /\ status = 0
    /\ eng.calls = 0
    /\ call.out_closed # NULL => handles[call.out_closed].len = 0
    /\ call.out_open # NULL => handles[call.out_open].len = 0

\* both outputs requested, the request for the closed path array failed
C7_Witness ==
  /\ op = "boolean64"
  /\ call.ct = C_CLIP_XOR /\ call.fr = C_FILL_NEGATIVE
  /\ call.subjects = NullSet
  /\ call.subjects_open = cpaths64(0, <<>>)
  /\ call.clips = cpaths64(0 - 1, <<>>)
  /\ call.out_closed = 1 /\ call.out_open = 2
  /\ handles[1] = EmptyHandle
  /\ handles[2].len = 0 /\ handles[2].items # NULL
  /\ status = 0

----------------------------------------------------------------------------
(* C10 *)

RoleSets == <<<<"subj", call.subjects>>, <<"subjOp", call.subjects_open>>,
              <<"clip", call.clips>>>>

\* C10: toPaths64 reads only from non-null point buffers of paths with
\* len > 0, inside their len; a null set or one with len <= 0 imports as the
\* empty collection; in a non-empty set a path with len <= 0 or a null
\* buffer imports as an empty path, so the collection has exactly len paths;
\* and a set of empty paths only is non-empty for the strategy selection.
C10_ImportReads ==
  (IsCall /\ eng.raised # "import") =>
    /\ \A r \in 1..3 :
         LET cp  == RoleSets[r][2]
             imp == imported[RoleSets[r][1]]
             rd  == reads[RoleSets[r][1]]
         IN /\ \A ij \in rd :
                 /\ ~cp.items[ij[1]].ptsNull
                 /\ cp.items[ij[1]].len > 0
                 /\ ij[2] \in 1..cp.items[ij[1]].len
            /\ EmptyWire(cp) => imp = <<>>
            /\ ~EmptyWire(cp) =>
                 /\ Len(imp) = cp.len
                 /\ \A i \in 1..cp.len :
                      IF cp.items[i].len <= 0 \/ cp.items[i].ptsNull
                      THEN imp[i] = <<>>
                      ELSE imp[i] = cp.items[i].pts
    /\ (op = "boolean64" /\ ~EmptyWire(call.subjects_open)) => eng.mode = "full"
    /\ (op = "boolean64" /\ ~EmptyWire(call.subjects) /\ EmptyWire(call.subjects_open))
         => eng.mode = (IF EmptyWire(call.clips) THEN "reduced" ELSE "full")

\* an open-subject set of one path with a positive len and a null buffer:
\* imported as one empty path, and the full evaluation is selected
C10_Witness ==
  /\ op = "boolean64"
  /\ eng.raised = "none"
  /\ call.subjects = NullSet
  /\ call.clips = NullSet
  /\ call.subjects_open = cpaths64(1, <<cpath64(1, TRUE, <<>>)>>)
  /\ imported.subjOp = << <<>> >>
  /\ reads.subjOp = {}
  /\ eng.mode = "full"
  /\ eng.added = <<"open">>

----------------------------------------------------------------------------
(* C4 *)

Range(f) == {f[i] : i \in 1..Len(f)}

\* the point buffers of a complete export of src into h, in path order
BuffersOf(h, hp) ==
  SelectSeq([i \in 1..h.len |-> hp[h.items].cells[i].pts], NonNull)

\* nothing leaks while no export has failed: every live allocation belongs
\* to a handle a successful export filled, and a handle that was released
\* (or never written) holds none
C4_NoLeak ==
  (\A h \in Handles : owner[h].st # "failed") =>
    /\ \A h \in Handles : owner[h].st = "none" => handles[h].items = NULL
    /\ \A h \in Handles : owner[h].st = "ok" => Complete(handles[h], owner[h].src, heap)
    /\ LiveAddrs(heap) = UNION {Reach(handles[h], heap) : h \in Handles}
    /\ (\A h \in Handles : owner[h].st = "none") => FreeAddrs(heap) = Addr

\* one clipper2c_free_paths step on handle p
C4_FreeStep ==
  \A p \in Handles :
    (op' = "free_paths" /\ call'.out_closed = p) =>
      /\ owner[p].st = "ok" =>
           LET h == handles[p] IN
           /\ freed' = (IF h.items = NULL THEN <<>>
                        ELSE Append(BuffersOf(h, heap), h.items))
           /\ Cardinality(Range(freed')) = Len(freed')
           /\ Range(freed') = Reach(h, heap)
           /\ \A a \in Range(freed') : heap[a].kind # "free" /\ heap'[a] = FreeCell
           /\ \A a \in Addr \ Range(freed') : heap'[a] = heap[a]
           /\ handles' = [handles EXCEPT ![p] = EmptyHandle]
      /\ handles[p] = EmptyHandle =>
           (freed' = <<>> /\ handles' = handles /\ heap' = heap)

\* C4: deep free.  One clipper2c_free_paths on a handle a successful export
\* filled releases each of its point buffers, then the path array, each
\* once, and resets the handle to len 0 / items null; a call on a reset
\* handle releases nothing; so once every output of successful calls has
\* been released no allocation of the bridge is live, empty results included.
C4_DeepFree == [](C4_NoLeak) /\ [][C4_FreeStep]_vars

\* the release of a handle that held two non-empty paths
C4_Witness ==
  /\ op = "free_paths"
  /\ call.out_closed = 1
  /\ call.was.len = 2
  /\ Len(freed) = 3
  /\ freed[3] = call.was.items
  /\ handles[1] = EmptyHandle
  /\ FreeAddrs(heap) = Addr

----------------------------------------------------------------------------
(* C5 *)

\* C5 as claimed: clipper2c_free_paths on a handle whose len is 0 performs
\* no deallocation and leaves the handle unchanged, whether items is null
\* or a zero-sized allocation.
C5_Original ==
  (op = "free_paths" /\ call.out_closed # NULL /\ call.was.len = 0) =>
    (freed = <<>> /\ handles[call.out_closed] = call.was)

\* C5 as amended: clipper2c_free_paths on a handle whose len is 0 releases
\* no point buffer; with items null it releases nothing and leaves the
\* handle unchanged; with items a zero-sized allocation it releases exactly
\* that allocation and sets items to null.  The items pointer, not len,
\* decides whether anything is released.
C5_FreeOfEmpty ==
  (op = "free_paths" /\ call.out_closed # NULL /\ call.was.len = 0) =>
    IF call.was.items = NULL
    THEN freed = <<>> /\ handles[call.out_closed] = call.was
    ELSE /\ freed = <<call.was.items>>
         /\ heap[call.was.items] = FreeCell
         /\ handles[call.out_closed] = EmptyHandle

C5_Witness ==
  /\ op = "free_paths"
  /\ call.out_closed # NULL
  /\ call.was.len = 0
  /\ call.was.items # NULL
  /\ freed = <<call.was.items>>
  /\ FreeAddrs(heap) = Addr

----------------------------------------------------------------------------
(* C6 *)

\* an allocation failed while h was being filled: the path array is
\* missing, or a path with points has no point buffer
AllocFailedIn(h, hp) ==
  IF h.items = NULL THEN h.len # 0
  ELSE \E i \in 1..h.len :
         hp[h.items].cells[i].len > 0 /\ hp[h.items].cells[i].pts = NULL

\* the output handles the last call exported into
Requested == {exports[k].dst : k \in 1..Len(exports)} \ {NULL}

\* C6 as claimed: in all three operations a null output pointer is skipped
\* and does not by itself cause a non-zero status; 2 or 3 is returned only
\* when an allocation for a requested output fails.
C6_Original ==
  (IsCall /\ eng.raised = "none" /\ status # 0) =>
    \E h \in Requested : AllocFailedIn(handles[h], heap)

\* C6 as amended: clipper2c_boolean64 skips an output whose pointer is null
\* (nothing is written or allocated for it, and it causes no non-zero
\* status); clipper2c_offset64 and clipper2c_rectclip64 return 2 for a null
\* out_paths, after the engine ran, with nothing written or allocated.  For
\* a non-null output, 2 (or 3) is returned only when an allocation made
\* while exporting it fails; when the engine does not fail, no allocation
\* fails and no required output pointer is null, the status is 0 and every
\* requested output is fully populated.
C6_NullOutputs ==
  (IsCall /\ eng.raised = "none") =>
    /\ status \in {0, 2, 3}
    /\ \A h \in Handles \ Requested : handles[h] = EmptyHandle /\ owner[h] = NoOwner
    /\ LiveAddrs(heap) = UNION {Reach(handles[h], heap) : h \in Requested}
    /\ \A k \in 1..Len(exports) :
         exports[k].dst # NULL =>
           /\ ~exports[k].ok <=> AllocFailedIn(handles[exports[k].dst], heap)
           /\ exports[k].ok <=> Complete(handles[exports[k].dst], exports[k].src, heap)
    /\ op = "boolean64" =>
         /\ \A k \in 1..Len(exports) : exports[k].dst # NULL
         /\ status # 0 <=> \E h \in Requested : AllocFailedIn(handles[h], heap)
         /\ (status = 0 /\ call.out_closed # NULL) => call.out_closed \in Requested
         /\ (status = 0 /\ call.out_open # NULL) => call.out_open \in Requested
    /\ op \in {"offset64", "rectclip64"} =>
         /\ eng.calls = 1
         /\ IF call.out_closed = NULL
            THEN status = 2 /\ Requested = {}
            ELSE /\ Requested = {call.out_closed}
                 /\ status # 0 <=> AllocFailedIn(handles[call.out_closed], heap)

\* an offset whose out_paths is null: status 2 and nothing allocated
C6_Witness ==
  /\ op = "offset64"
  /\ eng.raised = "none"
  /\ call.out_closed = NULL
  /\ status = 2
  /\ Clean

----------------------------------------------------------------------------
(* C8 *)

\* the state a failed export of src leaves in h: len is the full count; if
\* the path array could not be had, nothing else; else the paths before
\* the failing one f are populated and their buffers live, path f has its
\* len and a null buffer, and the paths after f were never written
LeftByFailure(h, src, hp) ==
  /\ h.len = Len(src)
  /\ Len(src) > 0
  /\ h.items # NULL =>
       /\ hp[h.items].kind = "items"
       /\ \E f \in 1..Len(src) :
            /\ Len(src[f]) > 0
            /\ hp[h.items].cells[f] = Entry(Len(src[f]), NULL)
            /\ \A i \in 1..(f - 1) :
                 LET e == hp[h.items].cells[i] IN
                 /\ e.len = Len(src[i])
                 /\ IF Len(src[i]) = 0 THEN e.pts = NULL
                    ELSE e.pts \in Addr /\ hp[e.pts].kind = "pts"
                         /\ hp[e.pts].cells = src[i]
            /\ \A i \in (f + 1)..Len(src) : hp[h.items].cells[i] = Uninit

\* C8: a failed request for the path array (of a non-empty result) or for a
\* path's point buffer aborts fromPaths64 with failure; nothing the export
\* allocated before is released, and the handle keeps len = the full path
\* count with the entries from the failing path on not populated.
C8_FailedExport ==
  IsCall =>
    \A k \in 1..Len(exports) :
      (exports[k].dst # NULL /\ ~exports[k].ok) =>
        /\ status \in {2, 3}
        /\ k = Len(exports)
        /\ LeftByFailure(handles[exports[k].dst], exports[k].src, heap)

\* the second path's buffer failed: the array and the first buffer stay live
C8_Witness ==
  /\ op = "offset64"
  /\ status = 2
  /\ call.out_closed = 1
  /\ handles[1].len = 2
  /\ handles[1].items # NULL
  /\ heap[handles[1].items].cells[1].pts \in Addr
  /\ heap[heap[handles[1].items].cells[1].pts].kind = "pts"
  /\ heap[handles[1].items].cells[2] = Entry(2, NULL)
  /\ Cardinality(LiveAddrs(heap)) = 2

----------------------------------------------------------------------------
(* C9 *)

\* C9: when clipper2c_boolean64 returns 3 and out_closed is not null, the
\* closed handle holds a complete export of the closed solution, its
\* allocations live and not shared with the open handle; the bridge has
\* released none of them, and clipper2c_free_paths can release them.
C9_ClosedKeptOnStatus3 ==
  (op = "boolean64" /\ status = 3 /\ call.out_closed # NULL) =>
    LET h == handles[call.out_closed] IN
    /\ Complete(h, eng.sol, heap)
    /\ owner[call.out_closed] = Owned(TRUE, eng.sol)
    /\ Reach(h, heap) \subseteq LiveAddrs(heap)
    /\ Reach(h, heap) \cap Reach(handles[call.out_open], heap) = {}
    /\ ReadsNoUninit(call.out_closed, handles, heap)
    /\ free_paths(call.out_closed, handles, heap).freed
         = (IF h.items = NULL THEN <<>> ELSE Append(BuffersOf(h, heap), h.items))

C9_Witness ==
  /\ op = "boolean64"
  /\ status = 3
  /\ call.out_closed = 1
  /\ Len(eng.sol) = 2
  /\ Cardinality(Reach(handles[1], heap)) = 3
  /\ Reach(handles[1], heap) \subseteq LiveAddrs(heap)

====
